---- MODULE Spec2Model ----
(***************************************************************************)
(* Merkle tree builder and proof generator of utils/ipfs_merkle            *)
(* (merkle_tree.py): construction of the layers, the root, per-leaf        *)
(* proofs, their hex rendering, and the manifest entry point.              *)
(*                                                                         *)
(* Byte strings are sequences of byte values (0..255).  Text is a sequence *)
(* of code points.                                                         *)
(***************************************************************************)
EXTENDS Integers, Sequences, FiniteSets, TLC

\* ------------------------------------------------------------------ bounds
\* Longest leaf sequence handed to the constructor.
MaxLeaves == 5
\* Longest "files" array of a manifest.
MaxFiles == 2

\* The raw leaves the callers draw from (hash_leaves = False takes them as is).
LeafBytes == { <<1>>, <<2>> }
\* Manifest entries: a name and a cid; 233 is a code point outside ASCII.
Entries == { [name |-> <<97>>, cid |-> <<81>>], [name |-> <<233>>, cid |-> <<81>>] }
\* The callers that share one tree.
Callers == { "c1", "c2" }

\* ------------------------------------------------------------ pure helpers
SeqsUpTo(S, n) == UNION { [1..k -> S] : k \in 0..n }

\* Keccak-256 comes from a library (eth_hash / pysha3).  It is modelled as a
\* collision-free digest: the length of the preimage followed by the
\* preimage, so distinct inputs have distinct digests and digests of one
\* layer have one width.
keccak(data) == <<Len(data)>> \o data

\* Python's bytes comparison a < b: lexicographic on unsigned byte values, a
\* proper prefix being smaller.
RECURSIVE BytesLess(_, _)
BytesLess(a, b) ==
    IF b = <<>> THEN FALSE
    ELSE IF a = <<>> THEN TRUE
    ELSE IF Head(a) # Head(b) THEN Head(a) < Head(b)
    ELSE BytesLess(Tail(a), Tail(b))

\* bytes.hex(): two hex digits (values 0..15) per byte, high digit first.
RECURSIVE hex(_)
hex(b) ==
    IF b = <<>> THEN <<>>
    ELSE << Head(b) \div 16, Head(b) % 16 >> \o hex(Tail(b))

\* str.encode("utf-8") for code points below 2048.
RECURSIVE Utf8(_)
Utf8(s) ==
    IF s = <<>> THEN <<>>
    ELSE (IF Head(s) < 128 THEN << Head(s) >>
          ELSE << 192 + (Head(s) \div 64), 128 + (Head(s) % 64) >>) \o Utf8(Tail(s))

\* _manifest_leaf: f"{name}:{cid}".encode("utf-8"); 58 is ':'.
manifest_leaf(entry) == Utf8(entry.name \o <<58>> \o entry.cid)

\* `not leaves`
\* (variant: the emptiness check left out)
IsEmptyM(leaves_) == FALSE
IsEmpty(leaves_) == Len(leaves_) = 0

\* [keccak(leaf) if hash_leaves else leaf for leaf in leaves]
\* (variant: the leaves never hashed)
HashLeavesM(ls, hash_leaves) == ls
HashLeaves(ls, hash_leaves) ==
    [ i \in 1..Len(ls) |-> IF hash_leaves THEN keccak(ls[i]) ELSE ls[i] ]

\* _hash_pair
\* (variants: the pair never sorted; the comparison reversed)
hash_pairM(left, right, sp) == keccak(left \o right)
hash_pairM2(left, right, sp) ==
    IF sp /\ BytesLess(left, right) THEN keccak(right \o left)
    ELSE keccak(left \o right)
hash_pair(left, right, sp) ==
    IF sp /\ BytesLess(right, left) THEN keccak(right \o left)
    ELSE keccak(left \o right)

\* One pass of the while loop of _build_layers: the for loop over
\* i = 0, 2, 4, ... (0-based) building next_layer.
\* (variant: the unpaired last element dropped)
NextLayerM(layer, sp) ==
    [ j \in 1..(Len(layer) \div 2) |-> hash_pair(layer[2*j - 1], layer[2*j], sp) ]
\* (variant: the unpaired last element carried up unhashed)
NextLayerM2(layer, sp) ==
    [ j \in 1..((Len(layer) + 1) \div 2) |->
        IF 2*j <= Len(layer) THEN hash_pair(layer[2*j - 1], layer[2*j], sp)
        ELSE layer[2*j - 1] ]
NextLayer(layer, sp) ==
    [ j \in 1..((Len(layer) + 1) \div 2) |->
        LET left  == layer[2*j - 1]
            right == IF 2*j <= Len(layer) THEN layer[2*j] ELSE left
        IN  hash_pair(left, right, sp) ]

\* _build_layers run to completion from the layers built so far.
RECURSIVE BuildLayers(_, _)
BuildLayers(ls, sp) ==
    IF Len(ls[Len(ls)]) > 1
    THEN BuildLayers(Append(ls, NextLayer(ls[Len(ls)], sp)), sp)
    ELSE ls

\* The root property: self.layers[-1][0].
Root(ls) == ls[Len(ls)][1]

\* The body of the for loop of get_proof at layer k (1-based) with the
\* 0-based position index: the proof after the step.
\* (variant: the sibling always taken at index + 1)
ProofStepM(ls, k, index, proof) ==
    LET pair_index == index + 1
    IN  IF pair_index < Len(ls[k]) THEN Append(proof, ls[k][pair_index + 1])
        ELSE proof
\* (variant: the node itself appended where it has no sibling)
ProofStepM2(ls, k, index, proof) ==
    LET pair_index == IF index % 2 = 1 THEN index - 1 ELSE index + 1
    IN  IF pair_index < Len(ls[k]) THEN Append(proof, ls[k][pair_index + 1])
        ELSE Append(proof, ls[k][index + 1])
ProofStep(ls, k, index, proof) ==
    LET layer_length == Len(ls[k])
        is_right_node == index % 2
        pair_index == IF is_right_node = 1 THEN index - 1 ELSE index + 1
    IN  IF pair_index < layer_length THEN Append(proof, ls[k][pair_index + 1])
        ELSE proof

\* The for loop of get_proof over self.layers[:-1], from layer k on.
RECURSIVE ProofLoop(_, _, _, _)
ProofLoop(ls, k, index, proof) ==
    IF k >= Len(ls) THEN proof
    ELSE ProofLoop(ls, k + 1, index \div 2, ProofStep(ls, k, index, proof))

\* get_proof: the outcome for any integer index.
\* (variant: the upper bound off by one)
get_proofM(lvs, ls, index) ==
    IF index < 0 \/ index > Len(lvs)
    THEN [status |-> "IndexError", value |-> <<>>]
    ELSE [status |-> "ok", value |-> ProofLoop(ls, 1, index, <<>>)]
get_proof(lvs, ls, index) ==
    IF index < 0 \/ index >= Len(lvs)
    THEN [status |-> "IndexError", value |-> <<>>]
    ELSE [status |-> "ok", value |-> ProofLoop(ls, 1, index, <<>>)]

\* build_hex_proof: MerkleProof(index, leaf hex, proof hex).
build_hex_proof(lvs, ls, index) ==
    LET proof_bytes == get_proof(lvs, ls, index)
    IN  IF proof_bytes.status # "ok" THEN proof_bytes
        ELSE [status |-> "ok",
              value |-> [index |-> index,
                         leaf |-> hex(lvs[index + 1]),
                         proof |-> [ n \in 1..Len(proof_bytes.value) |->
                                        hex(proof_bytes.value[n]) ]]]

\* build_all_hex_proofs
build_all_hex_proofs(lvs, ls) ==
    [status |-> "ok",
     value |-> [ n \in 1..Len(lvs) |-> build_hex_proof(lvs, ls, n - 1).value ]]

\* ------------------------------------------------------------------- state
VARIABLES
    pc,          \* "start", "building" (inside _build_layers), "ready", "raised"
    input,       \* the arguments of the construction call
    error,       \* the message of the exception the construction raised
    leaves,      \* self.leaves
    layers,      \* self.layers
    sort_pairs,  \* self.sort_pairs
    ret,         \* the last call made on the tree: who, what, its outcome, and
                 \* the value returned, in the field named after the operation
    index_error_seen  \* history: some proof call on this tree raised IndexError

vars == << pc, input, error, leaves, layers, sort_pairs, ret, index_error_seen >>

\* A MerkleProof with nothing in it, and the record of no call.
NoHexProof == [index |-> 0, leaf |-> <<>>, proof |-> <<>>]
NoCall ==
    [caller |-> "none", op |-> "none", index |-> 0, status |-> "none",
     get_proof |-> <<>>, build_hex_proof |-> NoHexProof,
     build_all_hex_proofs |-> <<>>, root |-> <<>>]

Init ==
    /\ pc = "start"
    /\ input = [via |-> "none", leaves |-> <<>>, hash_leaves |-> TRUE, sort_pairs |-> TRUE]
    /\ error = ""
    /\ leaves = <<>>
    /\ layers = <<>>
    /\ sort_pairs = TRUE
    /\ ret = NoCall
    /\ index_error_seen = FALSE

\* MerkleTree.__init__ up to the first line of _build_layers.
Construct(via, lvs, hl, sp) ==
    /\ input' = [via |-> via, leaves |-> lvs, hash_leaves |-> hl, sort_pairs |-> sp]
    /\ IF IsEmpty(lvs)
       THEN /\ pc' = "raised"
            /\ error' = "Merkle tree requires at least one leaf"
            /\ UNCHANGED << leaves, layers, sort_pairs >>
       ELSE /\ sort_pairs' = sp
            /\ leaves' = HashLeaves(lvs, hl)
            /\ layers' = << HashLeaves(lvs, hl) >>
            /\ pc' = "building"
            /\ UNCHANGED error
    /\ UNCHANGED << ret, index_error_seen >>

MerkleTreeInit ==
    /\ pc = "start"
    /\ \E lvs \in SeqsUpTo(LeafBytes, MaxLeaves), hl \in BOOLEAN, sp \in BOOLEAN :
          Construct("init", lvs, hl, sp)

\* build_merkle_tree_from_manifest: a manifest is the parsed JSON object,
\* with or without a "files" key.
Manifests ==
    { [note |-> <<>>] } \cup { [files |-> f] : f \in SeqsUpTo(Entries, MaxFiles) }

ManifestLeaves(m) ==
    LET files == IF "files" \in DOMAIN m THEN m.files ELSE <<>>
    IN  [ i \in 1..Len(files) |-> manifest_leaf(files[i]) ]

BuildFromManifest ==
    /\ pc = "start"
    /\ \E m \in Manifests :
          LET lvs == ManifestLeaves(m)
          IN  IF IsEmpty(lvs)
              THEN /\ pc' = "raised"
                   /\ error' = "Manifest does not contain any files"
                   /\ input' = [via |-> "manifest", leaves |-> lvs,
                                hash_leaves |-> TRUE, sort_pairs |-> TRUE]
                   /\ UNCHANGED << leaves, layers, sort_pairs, ret, index_error_seen >>
              ELSE Construct("manifest", lvs, TRUE, TRUE)

\* One iteration of `while len(current_layer) > 1`; current_layer is the
\* last element of self.layers.
BuildLayersStep ==
    /\ pc = "building"
    /\ Len(layers[Len(layers)]) > 1
    /\ layers' = Append(layers, NextLayer(layers[Len(layers)], sort_pairs))
    /\ UNCHANGED << pc, input, error, leaves, sort_pairs, ret, index_error_seen >>

\* The loop condition fails: _build_layers and the constructor return.
BuildLayersDone ==
    /\ pc = "building"
    /\ ~ (Len(layers[Len(layers)]) > 1)
    /\ pc' = "ready"
    /\ UNCHANGED << input, error, leaves, layers, sort_pairs, ret, index_error_seen >>

\* The indices callers ask for: valid ones and both kinds of invalid ones.
Indices == (-1)..MaxLeaves

\* What a call leaves behind: get_proof, build_hex_proof, build_all_hex_proofs
\* and root assign no attribute of the tree.
\* (variant: a call that pops the root layer instead of slicing)
ReturnsM(c, op, index, r) ==
    /\ ret' = [ (IF r.status = "ok" THEN [NoCall EXCEPT ![op] = r.value] ELSE NoCall)
                   EXCEPT !.caller = c, !.op = op, !.index = index,
                          !.status = r.status ]
    /\ index_error_seen' = (index_error_seen \/ r.status = "IndexError")
    /\ layers' = IF Len(layers) > 1 THEN SubSeq(layers, 1, Len(layers) - 1) ELSE layers
    /\ UNCHANGED << pc, input, error, leaves, sort_pairs >>
Returns(c, op, index, r) ==
    /\ ret' = [ (IF r.status = "ok" THEN [NoCall EXCEPT ![op] = r.value] ELSE NoCall)
                   EXCEPT !.caller = c, !.op = op, !.index = index,
                          !.status = r.status ]
    /\ index_error_seen' = (index_error_seen \/ r.status = "IndexError")
    /\ UNCHANGED << pc, input, error, leaves, layers, sort_pairs >>

CallGetProof(c) ==
    /\ pc = "ready"
    /\ \E index \in Indices :
          Returns(c, "get_proof", index, get_proof(leaves, layers, index))

CallBuildHexProof(c) ==
    /\ pc = "ready"
    /\ \E index \in Indices :
          Returns(c, "build_hex_proof", index, build_hex_proof(leaves, layers, index))

CallBuildAllHexProofs(c) ==
    /\ pc = "ready"
    /\ Returns(c, "build_all_hex_proofs", 0, build_all_hex_proofs(leaves, layers))

CallRoot(c) ==
    /\ pc = "ready"
    /\ Returns(c, "root", 0, [status |-> "ok", value |-> Root(layers)])

Next ==
    \/ MerkleTreeInit
    \/ BuildFromManifest
    \/ BuildLayersStep
    \/ BuildLayersDone
    \/ \E c \in Callers : CallGetProof(c)
    \/ \E c \in Callers : CallBuildHexProof(c)
    \/ \E c \in Callers : CallBuildAllHexProofs(c)
    \/ \E c \in Callers : CallRoot(c)

Spec == Init /\ [][Next]_vars

\* Construction is straight-line code: once started it keeps running.
FairSpec == Spec /\ WF_vars(BuildLayersStep) /\ WF_vars(BuildLayersDone)

TypeOK ==
    /\ pc \in { "start", "building", "ready", "raised" }
    /\ sort_pairs \in BOOLEAN

\* ---------------------------------------------------------------- verifiers
\* The tree a fresh construction from the same arguments gives.
FreshLeaves == HashLeaves(input.leaves, input.hash_leaves)
FreshLayers == BuildLayers(<< FreshLeaves >>, input.sort_pairs)

\* a <= b in unsigned byte-wise order, stated by the first differing position.
LexLeq(a, b) ==
    LET m == IF Len(a) < Len(b) THEN Len(a) ELSE Len(b)
        diff == { i \in 1..m : a[i] # b[i] }
    IN  IF diff = {} THEN Len(a) <= Len(b)
        ELSE LET d == CHOOSE i \in diff : \A i2 \in diff : i <= i2
             IN  a[d] < b[d]

\* H(smaller ++ larger)
SortedPairHash(a, b) == IF LexLeq(a, b) THEN keccak(a \o b) ELSE keccak(b \o a)

\* A verifier that knows the index and the leaf count n: at a level where the
\* builder duplicated the node (even position, last of an odd layer) it pairs
\* the node with itself, otherwise it consumes the next proof entry.
RECURSIVE Reconstruct(_, _, _, _, _)
Reconstruct(node, proof, index, n, sp) ==
    IF n <= 1 THEN [node |-> node, rest |-> proof]
    ELSE IF index % 2 = 0 /\ index + 1 >= n
    THEN Reconstruct(IF sp THEN SortedPairHash(node, node) ELSE keccak(node \o node),
                     proof, index \div 2, (n + 1) \div 2, sp)
    ELSE IF proof = <<>> THEN [node |-> <<>>, rest |-> << <<>> >>]
    ELSE Reconstruct(IF sp THEN SortedPairHash(node, Head(proof))
                     ELSE IF index % 2 = 1 THEN keccak(Head(proof) \o node)
                     ELSE keccak(node \o Head(proof)),
                     Tail(proof), index \div 2, (n + 1) \div 2, sp)

\* The standard sorted-pair verifier: leaf, proof and root only.
RECURSIVE ProcessProof(_, _)
ProcessProof(node, proof) ==
    IF proof = <<>> THEN node
    ELSE ProcessProof(SortedPairHash(node, Head(proof)), Tail(proof))

RECURSIVE CeilLog2(_)
CeilLog2(n) == IF n <= 1 THEN 0 ELSE 1 + CeilLog2((n + 1) \div 2)

Swap(s, p, q) == [ i \in 1..Len(s) |-> IF i = p THEN s[q] ELSE IF i = q THEN s[p] ELSE s[i] ]

RootOf(lvs, hl, sp) == Root(BuildLayers(<< HashLeaves(lvs, hl) >>, sp))

GotProof == ret.op = "get_proof" /\ ret.status = "ok"

\* ------------------------------------------------------------------ claims

\* C1: for every non-empty leaf sequence, both settings of sort_pairs and
\* every valid index i, recomputing upward from layers[0][i] with the proof
\* get_proof(i) returned and the index (sorted combination or combination by
\* parity, the node with itself where the builder duplicated it, the index
\* halved at each level) consumes the whole proof and yields the root.
C1_Reconstructs ==
    GotProof =>
        Reconstruct(layers[1][ret.index + 1], ret.get_proof, ret.index,
                    Len(layers[1]), sort_pairs)
            = [node |-> Root(layers), rest |-> <<>>]

\* A proof of the last of five leaves: duplicated at layers 0 and 1.
C1_Witness ==
    /\ GotProof
    /\ Len(leaves) = 5
    /\ ret.index = 4
    /\ ~ sort_pairs
    /\ Len(ret.get_proof) = 1

\* C2: with sort_pairs=True, the standard sorted-pair verifier, given only
\* the leaf, the proof of get_proof(i) and the root, accepts every proof.
C2_StandardVerifierAccepts ==
    (GotProof /\ sort_pairs) =>
        ProcessProof(layers[1][ret.index + 1], ret.get_proof) = Root(layers)

\* C3: the proof of get_proof(i) has ceil(log2(n)) entries when n > 1 and
\* none when n = 1: one per non-root layer.
C3_ProofLength ==
    GotProof =>
        /\ Len(ret.get_proof) = CeilLog2(Len(leaves))
        /\ Len(ret.get_proof) = Len(layers) - 1

\* C4 as stated: with sort_pairs=True, swapping the leaves at any two
\* positions of the input leaves the root unchanged.
C4_AnySwapKeepsRoot ==
    (pc = "ready" /\ sort_pairs) =>
        \A p, q \in 1..Len(input.leaves) :
            RootOf(Swap(input.leaves, p, q), input.hash_leaves, TRUE) = Root(layers)

\* C4 as amended: with sort_pairs=True, swapping the two leaves of one
\* layer-0 pair (0-based positions p, q with p // 2 = q // 2) leaves the
\* root unchanged.  A swap is symmetric in p and q, so p <= q covers it.
\* The roots compared are those of two constructions, so the tree is taken
\* as constructed, before any call on it.
C4_PairSwapKeepsRoot ==
    (pc = "ready" /\ sort_pairs /\ ret = NoCall) =>
        \A p \in 1..Len(input.leaves) :
            \A q \in { q \in p..Len(input.leaves) : (p - 1) \div 2 = (q - 1) \div 2 } :
                RootOf(Swap(input.leaves, p, q), input.hash_leaves, TRUE) = Root(layers)

\* A sorted tree whose third and fourth leaves differ, so the swap changes
\* the input.
C4_Witness ==
    /\ pc = "ready"
    /\ sort_pairs
    /\ ret = NoCall
    /\ Len(input.leaves) = 5
    /\ input.leaves[3] # input.leaves[4]

\* C5: every layer is non-empty, layer 0 is as long as the input, each layer
\* k+1 has length ceil(len(layer k) / 2), the last layer of a constructed
\* tree has one element, and layer construction terminates.
C5_Shape ==
    (pc \in { "building", "ready" }) =>
        /\ Len(layers) >= 1
        /\ Len(layers[1]) = Len(input.leaves)
        /\ \A k \in 1..Len(layers) : Len(layers[k]) >= 1
        /\ \A k \in 1..(Len(layers) - 1) :
              Len(layers[k + 1]) = (Len(layers[k]) \div 2) + (Len(layers[k]) % 2)
        /\ (pc = "ready") => Len(layers[Len(layers)]) = 1

C5_LayersAndTermination ==
    /\ []C5_Shape
    /\ (pc = "building") ~> (pc = "ready")

\* Five leaves: layers of 5, 3, 2 and 1 elements.
C5_Witness ==
    /\ pc = "ready"
    /\ Len(layers) = 4
    /\ Len(layers[2]) = 3

\* C6: construction from an empty leaf sequence, or from a manifest whose
\* files array is empty or missing, raises before any layer is built: no
\* leaves, layers or root exist and no call on a tree is ever made.
C6_EmptyInputRaises ==
    /\ (input.via # "none" /\ input.leaves = <<>>) =>
          /\ pc = "raised"
          /\ error = (IF input.via = "manifest"
                      THEN "Manifest does not contain any files"
                      ELSE "Merkle tree requires at least one leaf")
          /\ leaves = <<>>
          /\ layers = <<>>
          /\ ret = NoCall
    /\ (pc = "raised") => (input.leaves = <<>>)

C6_Witness ==
    /\ pc = "raised"
    /\ input.via = "init"
    /\ error = "Merkle tree requires at least one leaf"

\* C7: get_proof(index) and build_hex_proof(index) raise IndexError exactly
\* for index < 0 and index >= leaf count and return no proof then; the
\* leaves, layers and flag stay those of the construction, and a later
\* request for a valid index returns the proof of the untouched tree.
C7_IndexOutOfRange ==
    /\ (ret.op \in { "get_proof", "build_hex_proof" }) =>
          /\ (ret.status = "IndexError")
                <=> (ret.index < 0 \/ ret.index >= Len(input.leaves))
          /\ (ret.status = "IndexError") =>
                (ret.get_proof = <<>> /\ ret.build_hex_proof = NoHexProof)
          /\ ret.status \in { "ok", "IndexError" }
    /\ (pc = "ready" /\ index_error_seen) =>
          /\ leaves = FreshLeaves
          /\ layers = FreshLayers
          /\ sort_pairs = input.sort_pairs
          /\ (ret.op = "get_proof" /\ ret.status = "ok") =>
                ret.get_proof = get_proof(FreshLeaves, FreshLayers, ret.index).value
          /\ (ret.op = "build_hex_proof" /\ ret.status = "ok") =>
                ret.build_hex_proof
                    = build_hex_proof(FreshLeaves, FreshLayers, ret.index).value

\* A valid proof returned after some call has raised IndexError.
C7_Witness ==
    /\ index_error_seen
    /\ ret.op = "build_hex_proof"
    /\ ret.status = "ok"
    /\ Len(leaves) = 3
    /\ ret.index = 2

\* C8: a single-leaf tree has one layer, its root is the hash of the leaf
\* when hash_leaves is true and the leaf itself otherwise, and get_proof(0)
\* returns the empty sequence.
C8_SingleLeaf ==
    (pc = "ready" /\ Len(input.leaves) = 1) =>
        /\ Len(layers) = 1
        /\ Root(layers) = (IF input.hash_leaves THEN keccak(input.leaves[1])
                           ELSE input.leaves[1])
        /\ (ret.op = "get_proof" /\ ret.index = 0) =>
              (ret.status = "ok" /\ ret.get_proof = <<>>)

C8_Witness ==
    /\ pc = "ready"
    /\ Len(input.leaves) = 1
    /\ input.hash_leaves
    /\ ret.op = "get_proof"
    /\ ret.index = 0
    /\ ret.status = "ok"

\* C9: once construction has completed, no call of get_proof,
\* build_hex_proof, build_all_hex_proofs or root, valid or failing, by any
\* caller, changes the leaves, layers, flag or root, and each call returns
\* what it returns as the only call on the freshly constructed tree.
C9_AsTheOnlyCall ==
    (pc = "ready" /\ ret.op # "none") =>
        LET r == CASE ret.op = "get_proof" ->
                        get_proof(FreshLeaves, FreshLayers, ret.index)
                   [] ret.op = "build_hex_proof" ->
                        build_hex_proof(FreshLeaves, FreshLayers, ret.index)
                   [] ret.op = "build_all_hex_proofs" ->
                        build_all_hex_proofs(FreshLeaves, FreshLayers)
                   [] ret.op = "root" ->
                        [status |-> "ok", value |-> Root(FreshLayers)]
        IN  /\ ret.status = r.status
            /\ (r.status = "ok") => (ret[ret.op] = r.value)

C9_CallsOnlyRead ==
    /\ []C9_AsTheOnlyCall
    /\ [][ (pc = "ready") =>
             /\ pc' = "ready"
             /\ leaves' = leaves
             /\ layers' = layers
             /\ sort_pairs' = sort_pairs
             /\ Root(layers') = Root(layers)
         ]_vars

\* The second caller's call after an earlier call has failed.
C9_Witness ==
    /\ pc = "ready"
    /\ index_error_seen
    /\ ret.caller = "c2"
    /\ ret.op = "build_all_hex_proofs"
    /\ Len(leaves) = 5

\* C10: layers[k+1][j] is the pair hash of layers[k][2j] and layers[k][2j+1],
\* or of layers[k][2j] with itself past the end of an odd layer (no element
\* is dropped); the pair hash is H(smaller ++ larger) in byte-wise order when
\* sort_pairs is true, hence symmetric, and H(left ++ right) otherwise.
C10_LayerContents ==
    (pc \in { "building", "ready" }) =>
        \A k \in 1..(Len(layers) - 1) :
            /\ 2 * Len(layers[k + 1]) >= Len(layers[k])
            /\ \A j \in 1..Len(layers[k + 1]) :
                  LET a == layers[k][2*j - 1]
                      b == IF 2*j <= Len(layers[k]) THEN layers[k][2*j] ELSE a
                  IN  /\ layers[k + 1][j] = (IF sort_pairs THEN SortedPairHash(a, b)
                                             ELSE keccak(a \o b))
                      /\ sort_pairs =>
                            hash_pair(a, b, sort_pairs) = hash_pair(b, a, sort_pairs)

\* An unsorted and a sorted tree are both reachable; this one is sorted, has
\* an odd layer above the leaves and a pair whose right element is smaller.
C10_Witness ==
    /\ pc = "ready"
    /\ sort_pairs
    /\ Len(layers) = 4
    /\ BytesLess(layers[1][2], layers[1][1])

\* The 0-based position at the 1-based layer k.
PositionAt(i, k) == i \div (2 ^ (k - 1))
\* The non-root layers that contribute an entry, and the entry of each.
Contributing(i) ==
    { k \in 1..(Len(layers) - 1) :
        (PositionAt(i, k) % 2 = 1) \/ (PositionAt(i, k) + 1 < Len(layers[k])) }
EntryAt(i, k) ==
    IF PositionAt(i, k) % 2 = 1 THEN layers[k][(PositionAt(i, k) - 1) + 1]
    ELSE layers[k][(PositionAt(i, k) + 1) + 1]

\* C11: get_proof(i) visits the non-root layers bottom-up at positions
\* p_0 = i, p_{k+1} = p_k // 2, and contributes at layer k the element
\* layers[k][p_k - 1] when p_k is odd, layers[k][p_k + 1] when p_k is even and
\* p_k + 1 is inside the layer, and nothing when p_k is the last position of
\* an odd layer; the proof of the last of three leaves is the layer-1 sibling
\* H(leaf0, leaf1) alone.
C11_ProofEntries ==
    GotProof =>
        /\ Len(ret.get_proof) = Cardinality(Contributing(ret.index))
        /\ \A k \in Contributing(ret.index) :
              ret.get_proof[Cardinality({ k2 \in Contributing(ret.index) : k2 <= k })]
                  = EntryAt(ret.index, k)
        /\ (Len(leaves) = 3 /\ ret.index = 2) =>
              ret.get_proof
                  = << IF sort_pairs THEN SortedPairHash(leaves[1], leaves[2])
                       ELSE keccak(leaves[1] \o leaves[2]) >>

\* The proof of the last of five leaves: nothing from layers 0 and 1, the
\* left neighbour from layer 2.
C11_Witness ==
    /\ GotProof
    /\ Len(leaves) = 5
    /\ ret.index = 4
    /\ sort_pairs
    /\ Contributing(ret.index) = { 3 }
    /\ ret.get_proof = << layers[3][1] >>

\* C12: the root does not commit to the leaf count.  For every leaf sequence
\* of odd length n >= 3, either setting of hash_leaves and sort_pairs, the
\* tree built from the sequence with its last leaf appended once more has the
\* same layers above layer 0 and the same root, while its layer 0 differs.
\* Both trees are taken as constructed, before any call.
C12_AppendedLastLeaf ==
    (pc = "ready" /\ ret = NoCall
        /\ Len(input.leaves) >= 3 /\ Len(input.leaves) % 2 = 1) =>
        LET longer == Append(input.leaves, input.leaves[Len(input.leaves)])
            other == BuildLayers(<< HashLeaves(longer, input.hash_leaves) >>,
                                 input.sort_pairs)
        IN  /\ Len(other) = Len(layers)
            /\ \A k \in 2..Len(layers) : other[k] = layers[k]
            /\ Root(other) = Root(layers)
            /\ Len(other[1]) = Len(layers[1]) + 1
            /\ longer # input.leaves

\* A constructed tree of three distinct-ended leaves, unsorted and unhashed.
C12_Witness ==
    /\ pc = "ready"
    /\ ret = NoCall
    /\ Len(input.leaves) = 3
    /\ ~ input.sort_pairs
    /\ ~ input.hash_leaves
    /\ input.leaves[1] # input.leaves[3]

====
